---- MODULE Spec2Model ----
(***************************************************************************)
(* Model of updates/2025-09-04/transform_upstream.py: the text rewriting   *)
(* pipeline (transform), the safe writer (write_safe) and the batch driver *)
(* (main).                                                                 *)
(*                                                                         *)
(* A text is a sequence of tokens.  A token stands for the characters it   *)
(* spells ("implements", " ", "\n", "{", ...); the text a sequence stands  *)
(* for is the concatenation of its tokens.  Every regular expression of    *)
(* transform is modelled by the match it finds on such a sequence:         *)
(* leftmost match, greedy quantifiers, backtracking, no overlap, anchors   *)
(* and look-behind evaluated on the text the substitution started from.    *)
(***************************************************************************)
EXTENDS Integers, Sequences, FiniteSets, TLC

----------------------------------------------------------------------------
(* Character classes of the regular expressions, lifted to tokens.         *)

\* tokens made of characters that are not word characters (\W)
Punct == {" ", "\n", "@", ";", ",", "{", "}", "(", ")", "->", "|"}

\* dotted prefixes: they start with a word character and end with "."
DottedPrefix == {"jdk.internal.", "java.util.json.", "jdk.sandbox.java.util.json."}

\* \s
IsSpace(c) == c \in {" ", "\n"}

\* the first / the last character of the token is a word character (\w)
StartsWord(c) == c \notin Punct
EndsWord(c) == c \notin Punct /\ c \notin DottedPrefix

\* [A-Za-z0-9_$.<>\[\]]
IsTypeChar(c) == c \notin Punct

\* the token starts with the characters "jdk.internal."
StartsJdkInternal(c) == c \in {"jdk.internal.", "jdk.internal.util.json"}

\* ^ under re.M: at the start of the text or right after a newline
LineStart(t, i) == i = 1 \/ (i > 1 /\ i <= Len(t) + 1 /\ t[i - 1] = "\n")

\* \b before position i
WordBoundary(t, i) ==
    LET before == i > 1 /\ i - 1 <= Len(t) /\ EndsWord(t[i - 1])
        after == i >= 1 /\ i <= Len(t) /\ StartsWord(t[i])
    IN before # after

Tok(t, i) == IF i >= 1 /\ i <= Len(t) THEN t[i] ELSE "<eof>"

\* \s* from position i, greedy: the position after the longest run of spaces
RECURSIVE SkipSpace(_, _)
SkipSpace(t, i) ==
    IF i <= Len(t) /\ IsSpace(t[i]) THEN SkipSpace(t, i + 1) ELSE i

\* .* from position i, greedy: the position of the next newline, or
\* Len(t) + 1 when the line is the last one and has no newline
RECURSIVE LineEnd(_, _)
LineEnd(t, i) ==
    IF i <= Len(t) /\ t[i] # "\n" THEN LineEnd(t, i + 1) ELSE i

\* [A-Za-z0-9_$.<>\[\]]* from position i, greedy
RECURSIVE SkipType(_, _)
SkipType(t, i) ==
    IF i <= Len(t) /\ IsTypeChar(t[i]) THEN SkipType(t, i + 1) ELSE i

\* [^\)]* from position i, greedy
RECURSIVE SkipToParen(_, _)
SkipToParen(t, i) ==
    IF i <= Len(t) /\ t[i] # ")" THEN SkipToParen(t, i + 1) ELSE i

\* [^\{\n]* from position i, greedy
RECURSIVE SkipClause(_, _)
SkipClause(t, i) ==
    IF i <= Len(t) /\ t[i] # "{" /\ t[i] # "\n" THEN SkipClause(t, i + 1) ELSE i

\* \s*\n from position i: the position after the last newline of the run of
\* spaces that starts at i, 0 when the run holds no newline
RECURSIVE LastNewline(_, _, _)
LastNewline(t, i, e) ==
    IF e <= i THEN 0
    ELSE IF t[e - 1] = "\n" THEN e
    ELSE LastNewline(t, i, e - 1)

SpaceThenNewline(t, i) == LastNewline(t, i, SkipSpace(t, i))

Slice(t, a, b) == IF a > b THEN <<>> ELSE SubSeq(t, a, b)

\* A match is a record: end is the position after the match (0: no match
\* at this position), g1 the text of group 1.
NoMatch == [end |-> 0, g1 |-> <<>>]
Hit(e, g) == [end |-> e, g1 |-> g]

----------------------------------------------------------------------------
(* The ten substitutions of transform, in the order of the source.  For    *)
(* each: the match at position i of text t, and the replacement.           *)

\* line 31: ^package\s+jdk\.internal\.util\.json;   (re.M)
MatchPackage(t, i) ==
    LET a == SkipSpace(t, i + 1)
    IN IF /\ LineStart(t, i)
          /\ Tok(t, i) = "package"
          /\ a > i + 1
          /\ Tok(t, a) = "jdk.internal.util.json"
          /\ Tok(t, a + 1) = ";"
       THEN Hit(a + 2, <<>>)
       ELSE NoMatch

ReplPackage(g) == <<"package", " ", "jdk.sandbox.internal.util.json", ";">>

\* line 33: ^(\s*import\s+)java\.util\.json\.   (re.M)
MatchImport(t, i) ==
    LET a == SkipSpace(t, i)
        b == SkipSpace(t, a + 1)
    IN IF /\ LineStart(t, i)
          /\ Tok(t, a) = "import"
          /\ b > a + 1
          /\ Tok(t, b) = "java.util.json."
       THEN Hit(b + 1, Slice(t, i, b - 1))
       ELSE NoMatch

ReplImport(g) == g \o <<"jdk.sandbox.java.util.json.">>

\* line 35: ^\s*@(?:jdk\.internal\..*|ValueBased|StableValue).*\n   (re.M)
IsMarkerStart(c) == StartsJdkInternal(c) \/ c \in {"ValueBased", "StableValue"}

MatchAnnotation(t, i) ==
    LET a == SkipSpace(t, i)
        e == LineEnd(t, a + 2)
    IN IF /\ LineStart(t, i)
          /\ Tok(t, a) = "@"
          /\ IsMarkerStart(Tok(t, a + 1))
          /\ e <= Len(t)
       THEN Hit(e + 1, <<>>)
       ELSE NoMatch

ReplDelete(g) == <<>>

\* line 37: ^\s*import\s+jdk\.internal\.ValueBased;\s*\n   (re.M)
MatchValueBasedImport(t, i) ==
    LET a == SkipSpace(t, i)
        b == SkipSpace(t, a + 1)
        e == SpaceThenNewline(t, b + 3)
    IN IF /\ LineStart(t, i)
          /\ Tok(t, a) = "import"
          /\ b > a + 1
          /\ Tok(t, b) = "jdk.internal."
          /\ Tok(t, b + 1) = "ValueBased"
          /\ Tok(t, b + 2) = ";"
          /\ e # 0
       THEN Hit(e, <<>>)
       ELSE NoMatch

\* line 39: \bimplements\s+JsonValueImpl\s*,\s*
MatchMarkerFirst(t, i) ==
    LET a == SkipSpace(t, i + 1)
        b == SkipSpace(t, a + 1)
    IN IF /\ WordBoundary(t, i)
          /\ Tok(t, i) = "implements"
          /\ a > i + 1
          /\ Tok(t, a) = "JsonValueImpl"
          /\ Tok(t, b) = ","
       THEN Hit(SkipSpace(t, b + 1), <<>>)
       ELSE NoMatch

ReplImplements(g) == <<"implements", " ">> \o g

\* line 40: \bimplements\s+([^\{\n]*)\bJsonValueImpl\s*(,\s*)
\* group 1 is greedy: the marker taken is the last one of the clause that
\* stands at a word boundary and is followed by a comma.
MarkerThenComma(t, k) ==
    /\ Tok(t, k) = "JsonValueImpl"
    /\ WordBoundary(t, k)
    /\ Tok(t, SkipSpace(t, k + 1)) = ","

RECURSIVE LastMarkerThenComma(_, _, _)
LastMarkerThenComma(t, a, k) ==
    IF k < a THEN 0
    ELSE IF MarkerThenComma(t, k) THEN k
    ELSE LastMarkerThenComma(t, a, k - 1)

MatchMarkerInList(t, i) ==
    LET a == SkipSpace(t, i + 1)
        k == LastMarkerThenComma(t, a, SkipClause(t, a) - 1)
    IN IF /\ WordBoundary(t, i)
          /\ Tok(t, i) = "implements"
          /\ a > i + 1
          /\ k # 0
       THEN Hit(SkipSpace(t, SkipSpace(t, k + 1) + 1), Slice(t, a, k - 1))
       ELSE NoMatch

\* line 41: \bimplements\s+JsonValueImpl\b\s*
MatchMarkerOnly(t, i) ==
    LET a == SkipSpace(t, i + 1)
    IN IF /\ WordBoundary(t, i)
          /\ Tok(t, i) = "implements"
          /\ a > i + 1
          /\ Tok(t, a) = "JsonValueImpl"
          /\ WordBoundary(t, a + 1)
       THEN Hit(SkipSpace(t, a + 1), <<>>)
       ELSE NoMatch

\* line 43: ^\s*import\s+.*JsonValueImpl;\s*\n   (re.M)
MarkerImportEnd(t, k) ==
    /\ Tok(t, k) = "JsonValueImpl"
    /\ Tok(t, k + 1) = ";"
    /\ SpaceThenNewline(t, k + 2) # 0

RECURSIVE LastMarkerImport(_, _, _)
LastMarkerImport(t, b, k) ==
    IF k < b THEN 0
    ELSE IF MarkerImportEnd(t, k) THEN k
    ELSE LastMarkerImport(t, b, k - 1)

MatchMarkerImport(t, i) ==
    LET a == SkipSpace(t, i)
        b == SkipSpace(t, a + 1)
        k == LastMarkerImport(t, b, LineEnd(t, b) - 1)
    IN IF /\ LineStart(t, i)
          /\ Tok(t, a) = "import"
          /\ b > a + 1
          /\ k # 0
       THEN Hit(SpaceThenNewline(t, k + 2), <<>>)
       ELSE NoMatch

\* line 45: catch\s*\(([^\)]*)_\)
MatchCatch(t, i) ==
    LET a == SkipSpace(t, i + 1)
        p == SkipToParen(t, a + 1)
    IN IF /\ Tok(t, i) = "catch"
          /\ Tok(t, a) = "("
          /\ p <= Len(t)
          /\ p - 1 > a
          /\ Tok(t, p - 1) = "_"
       THEN Hit(p + 1, Slice(t, a + 1, p - 2))
       ELSE NoMatch

\* ReplCatch with the binder left unnamed
ReplCatchUnnamed(g) == <<"catch", "(">> \o g \o <<"_", ")">>

ReplCatch(g) == <<"catch", "(">> \o g \o <<"e", ")">>

\* line 46: case\s+([A-Za-z0-9_$.<>\[\]]+)\s+_\s*->
MatchCase(t, i) ==
    LET a == SkipSpace(t, i + 1)
        b == SkipType(t, a)
        c == SkipSpace(t, b)
        d == SkipSpace(t, c + 1)
    IN IF /\ Tok(t, i) = "case"
          /\ a > i + 1
          /\ b > a
          /\ c > b
          /\ Tok(t, c) = "_"
          /\ Tok(t, d) = "->"
       THEN Hit(d + 1, Slice(t, a, b - 1))
       ELSE NoMatch

ReplCase(g) == <<"case", " ">> \o g \o <<" ", "v", " ", "->">>

\* the rules, numbered in the order transform applies them
NumRules == 10

Match(r, t, i) ==
    CASE r = 1 -> MatchPackage(t, i)
      [] r = 2 -> MatchImport(t, i)
      [] r = 3 -> MatchAnnotation(t, i)
      [] r = 4 -> MatchValueBasedImport(t, i)
      [] r = 5 -> MatchMarkerFirst(t, i)
      [] r = 6 -> MatchMarkerInList(t, i)
      [] r = 7 -> MatchMarkerOnly(t, i)
      [] r = 8 -> MatchMarkerImport(t, i)
      [] r = 9 -> MatchCatch(t, i)
      [] OTHER -> MatchCase(t, i)

Repl(r, g) ==
    CASE r = 1 -> ReplPackage(g)
      [] r = 2 -> ReplImport(g)
      [] r \in {3, 4, 7, 8} -> ReplDelete(g)
      [] r \in {5, 6} -> ReplImplements(g)
      [] r = 9 -> ReplCatch(g)
      [] OTHER -> ReplCase(g)

\* re.sub: scan from the left; at a match emit the replacement and go on
\* after the match, else copy one token and go on at the next position.
RECURSIVE SubFrom(_, _, _)
SubFrom(r, t, i) ==
    IF i > Len(t) THEN <<>>
    ELSE LET m == Match(r, t, i)
         IN IF m.end = 0
            THEN <<t[i]>> \o SubFrom(r, t, i + 1)
            ELSE Repl(r, m.g1) \o SubFrom(r, t, m.end)

Sub(r, t) == SubFrom(r, t, 1)

\* transform(text, name): the rules 1..NumRules applied in order
RECURSIVE ApplyRules(_, _)
ApplyRules(r, t) == IF r = 0 THEN t ELSE Sub(r, ApplyRules(r - 1, t))

transform(t) == ApplyRules(NumRules, t)

----------------------------------------------------------------------------
(* The filesystem and the batch driver.                                    *)

VARIABLES
    srcIsDir,   \* os.path.isdir(SRC)
    dstIsDir,   \* os.path.isdir(DST)
    src,        \* the files of SRC, by name
    dst,        \* the files of DST, by name
    tmp,        \* the files DST/<name>.tmp, by name
    todo,       \* the names of os.listdir(SRC) the loop has not reached yet
    cur,        \* the name the loop is at
    data,       \* main's local: the text read
    out,        \* main's local: the transformed text
    ok,         \* main's local
    pc,         \* the position in main / write_safe
    status,     \* the exit status of the process, -1 while it runs
    dst0,       \* history: dst as it was when main started
    reads,      \* history: the number of read() calls, by name
    handed,     \* history: the texts write_safe() was called with, by name
    ret,        \* history: what write_safe returned, by name
    raised,     \* history: the I/O call that raised, "none" if none did
    tIn,        \* pipeline run: the text given to transform
    tText,      \* pipeline run: the text after the rules applied so far
    tPrev,      \* pipeline run: the text before the last rule applied
    tRule,      \* pipeline run: the number of the last rule applied
    tPass,      \* pipeline run: 1 for transform(t), 2 for transform(transform(t))
    tFirst      \* pipeline run: the result of the first pass

driverVars == <<srcIsDir, dstIsDir, src, dst, tmp, todo, cur, data, out, ok, pc,
                status, dst0, reads, handed, ret, raised>>
pipeVars == <<tIn, tText, tPrev, tRule, tPass, tFirst>>
vars == <<driverVars, pipeVars>>

\* a path holds no file, or a file with a text
Absent == [exists |-> FALSE, text |-> <<>>]
File(t) == [exists |-> TRUE, text |-> t]

\* file names: the part before the extension, and the extension
Name(b, e) == [base |-> b, ext |-> e]

\* name.endswith('.java')   (line 58)
EndsWithJava(n) == n.ext = ".java"

\* Excluded with the second name of the tuple forgotten
ExcludedForgetsUtils(n) == n \in {Name("StableValue", ".java")}

\* name in ('StableValue.java', 'Utils.java')   (line 60)
Excluded(n) == n \in {Name("StableValue", ".java"), Name("Utils", ".java")}

IsCandidate(n) == EndsWithJava(n) /\ ~Excluded(n)

\* the names the model's directories may hold
CandidateNames == {Name("A", ".java"), Name("B", ".java"), Name("C", ".java")}
Names == CandidateNames \cup
         {Name("StableValue", ".java"), Name("Utils", ".java"), Name("notes", ".txt")}

\* the texts a source file may hold: empty, a line the pipeline deletes
\* whole, a line it rewrites
PackageLine == <<"package", " ", "jdk.internal.util.json", ";", "\n">>
SourceTexts == { <<>>, <<"@", "ValueBased", "\n">>, PackageLine }

\* the text a destination file holds before the run
OldText == <<"Other", "\n">>

\* the prefixes a failed write may leave in the file
Prefixes(t) == { SubSeq(t, 1, k) : k \in 0..(Len(t) - 1) }

NoPipe ==
    /\ tIn = <<>> /\ tText = <<>> /\ tPrev = <<>>
    /\ tRule = 0 /\ tPass = 0 /\ tFirst = <<>>

Init ==
    /\ srcIsDir \in BOOLEAN
    /\ dstIsDir \in BOOLEAN
    /\ src \in [Names -> {Absent} \cup {File(t) : t \in SourceTexts}]
    /\ \A n \in Names : ~srcIsDir => src[n] = Absent
    /\ \A n \in Names : (srcIsDir /\ ~IsCandidate(n)) => src[n] = File(PackageLine)
    /\ dst \in [Names -> {Absent, File(OldText)}]
    /\ \A n \in Names : ~dstIsDir => dst[n] = Absent
    /\ \A n \in Names : ~EndsWithJava(n) => dst[n] = Absent
    /\ tmp = [n \in Names |-> Absent]
    /\ todo = {}
    /\ cur = Name("", "")
    /\ data = <<>>
    /\ out = <<>>
    /\ ok = TRUE
    /\ pc = "start"
    /\ status = -1
    /\ dst0 = dst
    /\ reads = [n \in Names |-> 0]
    /\ handed = [n \in Names |-> <<>>]
    /\ ret = [n \in Names |-> "none"]
    /\ raised = "none"
    /\ NoPipe

\* I/O calls that may raise OSError: open() and read() of the source file,
\* open() and write()/close() of the temporary file, os.remove() of the old
\* destination file and os.rename().  Writing an empty text writes nothing
\* and does not raise.  os.listdir, os.path.getsize, os.path.exists and the
\* os.remove(tmp) of line 22 are taken to succeed.  A run starts with no
\* temporary file in DST.

\* an uncaught exception ends the process with status 1
Raise(op) ==
    /\ raised' = op
    /\ status' = 1
    /\ pc' = "exit"

\* lines 50-52
MissingSrc ==
    /\ pc = "start"
    /\ ~srcIsDir
    /\ status' = 1
    /\ pc' = "exit"
    /\ UNCHANGED <<srcIsDir, dstIsDir, src, dst, tmp, todo, cur, data, out, ok,
                   dst0, reads, handed, ret, raised, pipeVars>>

\* lines 53-55
MissingDst ==
    /\ pc = "start"
    /\ srcIsDir
    /\ ~dstIsDir
    /\ status' = 1
    /\ pc' = "exit"
    /\ UNCHANGED <<srcIsDir, dstIsDir, src, dst, tmp, todo, cur, data, out, ok,
                   dst0, reads, handed, ret, raised, pipeVars>>

\* EnterLoop with the check of DST (lines 53-55) dropped
EnterLoopUnchecked ==
    /\ pc = "start"
    /\ srcIsDir
    /\ ok' = TRUE
    /\ todo' = {n \in Names : src[n].exists}
    /\ pc' = "loop"
    /\ UNCHANGED <<srcIsDir, dstIsDir, src, dst, tmp, cur, data, out, status,
                   dst0, reads, handed, ret, raised, pipeVars>>

\* lines 56-57: ok = True, os.listdir(SRC)
EnterLoop ==
    /\ pc = "start"
    /\ srcIsDir
    /\ dstIsDir
    /\ ok' = TRUE
    /\ todo' = {n \in Names : src[n].exists}
    /\ pc' = "loop"
    /\ UNCHANGED <<srcIsDir, dstIsDir, src, dst, tmp, cur, data, out, status,
                   dst0, reads, handed, ret, raised, pipeVars>>

\* lines 58-62: the two continue statements
Skip(n) ==
    /\ pc = "loop"
    /\ n \in todo
    /\ ~EndsWithJava(n) \/ Excluded(n)
    /\ todo' = todo \ {n}
    /\ UNCHANGED <<srcIsDir, dstIsDir, src, dst, tmp, cur, data, out, ok, pc,
                   status, dst0, reads, handed, ret, raised, pipeVars>>

\* lines 63-64
Select(n) ==
    /\ pc = "loop"
    /\ n \in todo
    /\ EndsWithJava(n)
    /\ ~Excluded(n)
    /\ todo' = todo \ {n}
    /\ cur' = n
    /\ pc' = "read"
    /\ UNCHANGED <<srcIsDir, dstIsDir, src, dst, tmp, data, out, ok,
                   status, dst0, reads, handed, ret, raised, pipeVars>>

\* line 65, lines 6-11: read(src_path)
ReadOk ==
    /\ pc = "read"
    /\ reads' = [reads EXCEPT ![cur] = @ + 1]
    /\ data' = src[cur].text
    /\ pc' = "transform"
    /\ UNCHANGED <<srcIsDir, dstIsDir, src, dst, tmp, todo, cur, out, ok,
                   status, dst0, handed, ret, raised, pipeVars>>

\* line 7 or 9 raises; nothing in main catches it
ReadFail ==
    /\ pc = "read"
    /\ reads' = [reads EXCEPT ![cur] = @ + 1]
    /\ Raise("read")
    /\ UNCHANGED <<srcIsDir, dstIsDir, src, dst, tmp, todo, cur, data, out, ok,
                   dst0, handed, ret, pipeVars>>

\* line 66
Transform ==
    /\ pc = "transform"
    /\ out' = transform(data)
    /\ pc' = "open"
    /\ UNCHANGED <<srcIsDir, dstIsDir, src, dst, tmp, todo, cur, data, ok,
                   status, dst0, reads, handed, ret, raised, pipeVars>>

\* lines 67, 14-15: write_safe is entered, open(tmp, 'w') creates or truncates
OpenOk ==
    /\ pc = "open"
    /\ handed' = [handed EXCEPT ![cur] = Append(@, out)]
    /\ tmp' = [tmp EXCEPT ![cur] = File(<<>>)]
    /\ pc' = "write"
    /\ UNCHANGED <<srcIsDir, dstIsDir, src, dst, todo, cur, data, out, ok,
                   status, dst0, reads, ret, raised, pipeVars>>

\* line 15 raises
OpenFail ==
    /\ pc = "open"
    /\ handed' = [handed EXCEPT ![cur] = Append(@, out)]
    /\ Raise("open")
    /\ UNCHANGED <<srcIsDir, dstIsDir, src, dst, tmp, todo, cur, data, out, ok,
                   dst0, reads, ret, pipeVars>>

\* lines 16-19: f.write(text), f.close()
WriteOk ==
    /\ pc = "write"
    /\ tmp' = [tmp EXCEPT ![cur] = File(out)]
    /\ pc' = "size"
    /\ UNCHANGED <<srcIsDir, dstIsDir, src, dst, todo, cur, data, out, ok,
                   status, dst0, reads, handed, ret, raised, pipeVars>>

\* line 17 or 19 raises with part of the text written; the finally clause
\* closes the file and the temporary file stays
WriteFail ==
    /\ pc = "write"
    /\ \E part \in Prefixes(out) : tmp' = [tmp EXCEPT ![cur] = File(part)]
    /\ Raise("write")
    /\ UNCHANGED <<srcIsDir, dstIsDir, src, dst, todo, cur, data, out, ok,
                   dst0, reads, handed, ret, pipeVars>>

\* TmpIsEmpty with the size check dropped
SizeCheckDropped(n) == FALSE

\* line 20: os.path.getsize(tmp) == 0
TmpIsEmpty(n) == Len(tmp[n].text) = 0

\* lines 20-23, then lines 67-68 in main
RefuseEmpty ==
    /\ pc = "size"
    /\ TmpIsEmpty(cur)
    /\ tmp' = [tmp EXCEPT ![cur] = Absent]
    /\ ret' = [ret EXCEPT ![cur] = "False"]
    /\ ok' = FALSE
    /\ pc' = "loop"
    /\ UNCHANGED <<srcIsDir, dstIsDir, src, dst, todo, cur, data, out,
                   status, dst0, reads, handed, raised, pipeVars>>

\* lines 24-25: os.path.exists(path), os.remove(path)
RemoveOld ==
    /\ pc = "size"
    /\ ~TmpIsEmpty(cur)
    /\ dst[cur].exists
    /\ dst' = [dst EXCEPT ![cur] = Absent]
    /\ pc' = "rename"
    /\ UNCHANGED <<srcIsDir, dstIsDir, src, tmp, todo, cur, data, out, ok,
                   status, dst0, reads, handed, ret, raised, pipeVars>>

\* line 25 raises
RemoveFail ==
    /\ pc = "size"
    /\ ~TmpIsEmpty(cur)
    /\ dst[cur].exists
    /\ Raise("remove")
    /\ UNCHANGED <<srcIsDir, dstIsDir, src, dst, tmp, todo, cur, data, out, ok,
                   dst0, reads, handed, ret, pipeVars>>

\* line 24: nothing at the destination path
NoOld ==
    /\ pc = "size"
    /\ ~TmpIsEmpty(cur)
    /\ ~dst[cur].exists
    /\ pc' = "rename"
    /\ UNCHANGED <<srcIsDir, dstIsDir, src, dst, tmp, todo, cur, data, out, ok,
                   status, dst0, reads, handed, ret, raised, pipeVars>>

\* lines 26-27: os.rename(tmp, path), return True
RenameOk ==
    /\ pc = "rename"
    /\ dst' = [dst EXCEPT ![cur] = tmp[cur]]
    /\ tmp' = [tmp EXCEPT ![cur] = Absent]
    /\ ret' = [ret EXCEPT ![cur] = "True"]
    /\ pc' = "loop"
    /\ UNCHANGED <<srcIsDir, dstIsDir, src, todo, cur, data, out, ok,
                   status, dst0, reads, handed, raised, pipeVars>>

\* line 26 raises
RenameFail ==
    /\ pc = "rename"
    /\ Raise("rename")
    /\ UNCHANGED <<srcIsDir, dstIsDir, src, dst, tmp, todo, cur, data, out, ok,
                   dst0, reads, handed, ret, pipeVars>>

\* lines 69-71: the loop is over
Finish ==
    /\ pc = "loop"
    /\ todo = {}
    /\ status' = IF ok THEN 0 ELSE 2
    /\ pc' = "exit"
    /\ UNCHANGED <<srcIsDir, dstIsDir, src, dst, tmp, todo, cur, data, out, ok,
                   dst0, reads, handed, ret, raised, pipeVars>>

Next ==
    \/ MissingSrc
    \/ MissingDst
    \/ EnterLoop
    \/ \E n \in Names : Skip(n)
    \/ \E n \in Names : Select(n)
    \/ ReadOk
    \/ ReadFail
    \/ Transform
    \/ OpenOk
    \/ OpenFail
    \/ WriteOk
    \/ WriteFail
    \/ RefuseEmpty
    \/ RemoveOld
    \/ RemoveFail
    \/ NoOld
    \/ RenameOk
    \/ RenameFail
    \/ Finish

Spec == Init /\ [][Next]_vars

----------------------------------------------------------------------------
(* A run of the pipeline alone: transform(t), rule by rule, and then       *)
(* transform(transform(t)), on texts drawn from bounded sets.              *)

\* bounds of the input texts
MaxNames == 4
MaxTypeLen == 2
MaxLines == 2

\* the concatenation of a sequence of texts
RECURSIVE Flatten(_)
Flatten(ss) == IF ss = <<>> THEN <<>> ELSE Head(ss) \o Flatten(Tail(ss))

\* the sequences over S of length 1..n
Lists(S, n) == UNION { [1..k -> S] : k \in 1..n }

\* "implements N1, N2, ... {"
InterfaceNames == {"JsonValueImpl", "Other", "X"}

ImplementsClause(names) ==
    <<"implements", " ", names[1]>>
    \o Flatten([k \in 1..(Len(names) - 1) |-> <<",", " ", names[k + 1]>>])
    \o <<" ", "{">>

\* "catch (T b) {", with or without the space after catch
TypeTokens == {"IOException", "T", "_", "|", " "}
TypeExprs == Lists(TypeTokens, MaxTypeLen)

CatchClause(space, type, binder) ==
    <<"catch">> \o space \o <<"(">> \o type \o <<" ", binder, ")", " ", "{">>

\* lines of a source file, without their newline
LineShapes ==
    { <<>>,
      <<" ">>,
      <<"@", "ValueBased">>,
      <<" ", "@", "StableValue">>,
      <<"@", "jdk.internal.", "X">>,
      <<"@", "ValueBased", " ", "X", " ", "{">>,
      <<"@", "ValueBased", "X">>,
      <<"@", "Other">>,
      <<"X", " ", "@", "ValueBased">>,
      <<"X", " ", "{">>,
      <<"import", " ", "jdk.internal.", "ValueBased", ";">>,
      <<"import", " ", "java.util.json.", "X", ";">>,
      <<"import", " ", "X", "JsonValueImpl", ";">>,
      <<"package", " ", "jdk.internal.util.json", ";">>,
      <<"case", " ", "T", " ", "_", " ", "->">> }

\* a file of lines; the last line with or without its newline
FileOf(lines, finalNewline) ==
    Flatten([k \in 1..Len(lines) |->
                IF k < Len(lines) \/ finalNewline
                THEN lines[k] \o <<"\n">> ELSE lines[k]])

Inputs ==
    { ImplementsClause(ns) : ns \in Lists(InterfaceNames, MaxNames) }
    \cup { CatchClause(sp, ty, b) :
             sp \in {<<>>, <<" ">>}, ty \in TypeExprs, b \in {"_", "e"} }
    \cup { FileOf(ls, nl) : ls \in Lists(LineShapes, MaxLines), nl \in BOOLEAN }

DriverOff ==
    /\ srcIsDir = FALSE
    /\ dstIsDir = FALSE
    /\ src = [n \in Names |-> Absent]
    /\ dst = [n \in Names |-> Absent]
    /\ tmp = [n \in Names |-> Absent]
    /\ todo = {}
    /\ cur = Name("", "")
    /\ data = <<>>
    /\ out = <<>>
    /\ ok = TRUE
    /\ pc = "off"
    /\ status = -1
    /\ dst0 = dst
    /\ reads = [n \in Names |-> 0]
    /\ handed = [n \in Names |-> <<>>]
    /\ ret = [n \in Names |-> "none"]
    /\ raised = "none"

InitT ==
    /\ DriverOff
    /\ tIn \in Inputs
    /\ tText = tIn
    /\ tPrev = tIn
    /\ tRule = 0
    /\ tPass = 1
    /\ tFirst = <<>>

\* one statement of lines 31-46: text = re.sub(..., text)
ApplyRule ==
    /\ tPass \in {1, 2}
    /\ tRule < NumRules
    /\ tRule' = tRule + 1
    /\ tPrev' = tText
    /\ tText' = Sub(tRule + 1, tText)
    /\ tFirst' = IF tPass = 1 /\ tRule' = NumRules THEN tText' ELSE tFirst
    /\ UNCHANGED <<tIn, tPass, driverVars>>

\* line 47 returns; the result is given to transform again
Rerun ==
    /\ tPass = 1
    /\ tRule = NumRules
    /\ tPass' = 2
    /\ tRule' = 0
    /\ tPrev' = tText
    /\ UNCHANGED <<tIn, tText, tFirst, driverVars>>

NextT == ApplyRule \/ Rerun

SpecT == InitT /\ [][NextT]_vars

----------------------------------------------------------------------------
(* Properties of the batch driver and the safe writer, under Spec.         *)

\* the exclusion set as the specification names it
ExcludedFiles == {Name("StableValue", ".java"), Name("Utils", ".java")}

\* a candidate as the specification defines it
SpecCandidate(n) == n.ext = ".java" /\ n \notin ExcludedFiles

NoFiles == [n \in Names |-> Absent]

\* C1: exclusion invariant.  At every point of every run, for each file
\* name of the exclusion set: the destination file is as it was when the
\* run started (same text, or still absent), no temporary file of that
\* name exists, the file was never read, never handed to write_safe, and
\* is never the file the loop works on.
C1_ExclusionInvariant ==
    \A n \in ExcludedFiles :
        /\ dst[n] = dst0[n]
        /\ tmp[n] = Absent
        /\ reads[n] = 0
        /\ handed[n] = <<>>
        /\ cur # n

\* C1 witness: a finished run in which both excluded files exist in the
\* source and in the destination, another file was written and a third
\* one refused.
C1_Witness ==
    /\ pc = "exit"
    /\ \A n \in ExcludedFiles : src[n].exists /\ dst0[n].exists
    /\ \E a \in Names : ret[a] = "True" /\ dst[a] # dst0[a]
    /\ \E b \in Names : ret[b] = "False"

\* write_safe(n, ...) has returned (it did not raise, and is not running)
Returned(n) == cur # n \/ (pc \in {"loop", "exit"} /\ raised = "none")

HandedEmpty(n) == \E k \in 1..Len(handed[n]) : handed[n][k] = <<>>

\* C2: non-destructive-empty invariant.  For a file whose pipeline output,
\* handed to write_safe, is empty: the destination path stays as it was
\* when the run started, write_safe never returns True for it and the run
\* never exits with status 0; once write_safe has returned (the temporary
\* file was written and found to hold zero bytes), it returned False, the
\* temporary file is gone and main's ok flag is False.
C2_NonDestructiveEmpty ==
    \A n \in Names :
        HandedEmpty(n) =>
            /\ dst[n] = dst0[n]
            /\ ret[n] # "True"
            /\ status # 0
            /\ Returned(n) =>
                   /\ ret[n] = "False"
                   /\ tmp[n] = Absent
                   /\ ok = FALSE
                   /\ pc = "exit" => status \in {1, 2}

\* C2 witness: a run that ended with status 2 after write_safe refused the
\* empty output of a non-empty source file whose destination existed.
C2_Witness ==
    /\ pc = "exit"
    /\ status = 2
    /\ \E n \in Names :
          /\ src[n].text # <<>>
          /\ handed[n] = << <<>> >>
          /\ ret[n] = "False"
          /\ dst0[n] = File(OldText)
          /\ dst[n] = File(OldText)
          /\ tmp[n] = Absent

\* C3: aggregate batch status without early stop.  When a run with both
\* directories present has ended, every candidate file of the source was
\* read once and handed to write_safe once, a non-empty output is the text
\* of the destination file, an empty output left the destination as it
\* was, and the exit status is 0 exactly if write_safe returned True for
\* every candidate.
C3_EveryCandidateOnce ==
    (pc = "exit" /\ srcIsDir /\ dstIsDir) =>
        /\ \A n \in Names :
              (src[n].exists /\ SpecCandidate(n)) =>
                  /\ reads[n] = 1
                  /\ Len(handed[n]) = 1
                  /\ handed[n][1] = transform(src[n].text)
                  /\ handed[n][1] # <<>> => dst[n] = File(handed[n][1])
                  /\ handed[n][1] = <<>> => dst[n] = dst0[n]
        /\ status = 0 <=>
              \A n \in Names : (src[n].exists /\ SpecCandidate(n)) => ret[n] = "True"

\* C4: per-file I/O failure isolation.  When an I/O call raised for one
\* file, the run still attempts every other candidate file and ends with
\* a failure status; it is never cut short.
C4_IOErrorIsolated ==
    (pc = "exit" /\ raised # "none") =>
        /\ \A n \in Names : (src[n].exists /\ SpecCandidate(n)) => reads[n] >= 1
        /\ status # 0

\* C5: a configuration error is fatal and free of side effects.  When the
\* source or the destination directory is missing, the run is only ever
\* at its start or at its exit, the exit status is 1, and nothing was
\* listed, read, handed to write_safe, created, removed or renamed.
C5_ConfigErrorFatal ==
    (~srcIsDir \/ ~dstIsDir) =>
        /\ pc \in {"start", "exit"}
        /\ pc = "start" => status = -1
        /\ pc = "exit" => status = 1
        /\ dst = dst0
        /\ tmp = NoFiles
        /\ todo = {}
        /\ cur = Name("", "")
        /\ \A n \in Names : reads[n] = 0 /\ handed[n] = <<>> /\ ret[n] = "none"
        /\ raised = "none"

\* C5 witness: the run has exited because the destination directory is
\* missing, with candidate files waiting in the source directory.
C5_Witness ==
    /\ pc = "exit"
    /\ status = 1
    /\ srcIsDir
    /\ ~dstIsDir
    /\ \E n \in Names : SpecCandidate(n) /\ src[n].exists /\ src[n].text # <<>>

\* C10: temporary file release.  Whenever write_safe is not running (it
\* has not been called, has returned, or has raised), no temporary file
\* exists in the destination directory.
C10_NoTmpLeft ==
    pc \notin {"write", "size", "rename"} => tmp = NoFiles

----------------------------------------------------------------------------
(* Properties of the pipeline, under SpecT.                                *)

FirstPassDone == tPass = 1 /\ tRule = NumRules

\* C6: pipeline idempotence.  transform(transform(t)) = transform(t): the
\* second pass ends with the text the first pass ended with.
C6_Idempotent ==
    (tPass = 2 /\ tRule = NumRules) => tText = tFirst

\* C7: interface-list editing.  For every other interface name o,
\* transform maps "implements JsonValueImpl, o {" to "implements o {",
\* "implements o, JsonValueImpl {" to "implements o {", and
\* "implements JsonValueImpl {" to "{".
C7_InterfaceListEditing ==
    FirstPassDone =>
        /\ tIn = ImplementsClause(<<"JsonValueImpl">>) => tText = <<"{">>
        /\ \A o \in InterfaceNames \ {"JsonValueImpl"} :
              /\ tIn = ImplementsClause(<<"JsonValueImpl", o>>)
                    => tText = ImplementsClause(<<o>>)
              /\ tIn = ImplementsClause(<<o, "JsonValueImpl">>)
                    => tText = ImplementsClause(<<o>>)

\* C8 as stated: for every exception type T, transform rewrites
\* "catch (T _) {" into "catch (T e) {", the space after catch preserved.
C8_SpacePreserved ==
    \A ty \in TypeExprs :
        (FirstPassDone /\ tIn = CatchClause(<<" ">>, ty, "_"))
            => tText = CatchClause(<<" ">>, ty, "e")

\* C8 as amended: for every exception type T, transform rewrites
\* "catch (T _) {" into exactly "catch(T e) {": the binder _ becomes e,
\* the space between catch and ( is dropped, and every other character of
\* the clause is preserved.
C8_BinderNamed ==
    \A ty \in TypeExprs :
        (FirstPassDone /\ tIn = CatchClause(<<" ">>, ty, "_"))
            => tText = CatchClause(<<>>, ty, "e")

\* C8 witness: transform has turned "catch (IOException _) {" into
\* "catch(IOException e) {".
C8_Witness ==
    /\ FirstPassDone
    /\ tIn = CatchClause(<<" ">>, <<"IOException">>, "_")
    /\ tText = CatchClause(<<>>, <<"IOException">>, "e")

\* a line that consists solely of optional leading blanks and one marker
\* annotation: @ValueBased, @StableValue, or @jdk.internal.<name>
IsWholeMarkerLine(line) ==
    LET a == SkipSpace(line, 1)
    IN /\ Tok(line, a) = "@"
       /\ \/ Tok(line, a + 1) \in {"ValueBased", "StableValue"} /\ Len(line) = a + 1
          \/ /\ Tok(line, a + 1) = "jdk.internal."
             /\ Len(line) = a + 2
             /\ IsTypeChar(line[a + 2])

\* the text without its newline-terminated whole marker lines
RECURSIVE WithoutMarkerLines(_)
WithoutMarkerLines(t) ==
    LET e == LineEnd(t, 1)
    IN IF e > Len(t) THEN t
       ELSE IF IsWholeMarkerLine(Slice(t, 1, e - 1))
            THEN WithoutMarkerLines(Slice(t, e + 1, Len(t)))
            ELSE Slice(t, 1, e) \o WithoutMarkerLines(Slice(t, e + 1, Len(t)))

\* C9: annotation stripping deletes only whole marker lines.  The text the
\* annotation rule (the third rule) returns is the text it was given
\* without the lines that consist solely of leading blanks and a marker
\* annotation; every other line, blank lines included, is kept unchanged.
C9_OnlyWholeMarkerLines ==
    (tPass = 1 /\ tRule = 3) => tText = WithoutMarkerLines(tPrev)

====
